---- MODULE Spec2Model ----
(***************************************************************************)
(* outline_repo.py: main checks the root path, gather_stats walks the tree *)
(* with os.walk and accumulates totals, scan_tree renders a depth-bounded  *)
(* listing with a recursive helper, and main writes the report.            *)
(*                                                                         *)
(* A name is the tuple of its code points ("lib" is <<108, 105, 98>>), so  *)
(* that str.lower, string comparison and Path.suffix are computed.  The    *)
(* filesystem is a sequence of nodes; node 0 is the scanned root.          *)
(***************************************************************************)
EXTENDS Integers, Sequences, FiniteSets, TLC

VARIABLES
    fs,            \* the tree under the root: node id -> [parent, name, kind, size, ok]
    root_valid,    \* root.exists() and root.is_dir()
    pc,            \* position in main and in the function it is running
    exit_code,     \* -1 while running, 1 after sys.exit(1), 0 after a normal end
    calls,         \* the functions main has called so far, in order
    written,       \* PROJECT_SUMMARY.md has been written
    ignores,       \* main's ignores set
    total_files, total_bytes, lang_counts, file_sizes, folder_sizes,
    walk_stack,    \* os.walk: directories still to be yielded, next first
    cur_dir,       \* os.walk: dirpath of the current iteration
    pending,       \* the filenames of the current iteration not yet looked at
    top_files, top_folders,
    depth,         \* scan_tree's depth parameter
    lines,         \* scan_tree's lines
    frames         \* the activations of helper, innermost first

vars == <<fs, root_valid, pc, exit_code, calls, written, ignores,
          total_files, total_bytes, lang_counts, file_sizes, folder_sizes,
          walk_stack, cur_dir, pending, top_files, top_folders,
          depth, lines, frames>>

stats_vars == <<total_files, total_bytes, lang_counts, file_sizes, folder_sizes,
                walk_stack, cur_dir, pending, top_files, top_folders>>

tree_vars == <<depth, lines, frames>>

main_vars == <<fs, root_valid, exit_code, calls, written, ignores>>

----------------------------------------------------------------------------
(* Bounds of the explored inputs. *)

\* file sizes are drawn from 0..MaxSize
MaxSize == 2

\* at most this many nodes of a tree differ from the default (size 1, readable)
MaxVaried == 1

\* --depth is drawn from 0..MaxDepth
MaxDepth == 4

(* Program constants. *)

\* top_files = sorted(...)[:15]
TOP_FILES == 15

\* top_folders = sorted(...)[:10]
TOP_FOLDERS == 10

----------------------------------------------------------------------------
(* Names *)

n_src == <<115, 114, 99>>
n_lib == <<108, 105, 98>>
n_a == <<97>>
n_B == <<66>>
n_c == <<99>>
n_x == <<120>>
n_m_go == <<109, 46, 103, 111>>
n_u_GO == <<117, 46, 71, 79>>
n_R_md == <<82, 46, 109, 100>>

Min(a, b) == IF a <= b THEN a ELSE b

\* str.lower on ASCII names
Lower(name) ==
    [i \in DOMAIN name |-> IF name[i] \in 65..90 THEN name[i] + 32 ELSE name[i]]

\* s < t on Python strings: lexicographic by code point
LexLess(s, t) ==
    \E k \in 1..(Len(t)) :
        /\ \A j \in 1..(k - 1) : j <= Len(s) /\ s[j] = t[j]
        /\ \/ k = Len(s) + 1
           \/ k <= Len(s) /\ s[k] < t[k]

\* Path.suffix: from the last dot, unless that dot is the first or the last character
Suffix(name) ==
    LET dots == {i \in DOMAIN name : name[i] = 46}
    IN  IF dots = {} THEN <<>>
        ELSE LET i == CHOOSE d \in dots : \A e \in dots : e <= d
             IN  IF 1 < i /\ i < Len(name) THEN SubSeq(name, i, Len(name)) ELSE <<>>

\* EXT_LANG.get(ext), for the extensions of the names above; "" is None
EXT_LANG(ext) ==
    CASE ext = <<46, 103, 111>> -> "Go"
      [] ext = <<46, 109, 100>> -> "Markdown"
      [] ext = <<46, 112, 121>> -> "Python"
      [] OTHER -> ""

Langs == {"Go", "Markdown", "Python"}

----------------------------------------------------------------------------
(* The filesystem *)

Nodes == 1..Len(fs)

\* Path.is_dir / DirEntry.is_dir
IsDir(n) == fs[n].kind = "dir"

\* Path.is_file: a regular file; a FIFO, a socket or a broken link is neither
IsFile(n) == fs[n].kind = "file"

RECURSIVE ChildrenFrom(_, _)
ChildrenFrom(p, n) ==
    IF n > Len(fs) THEN <<>>
    ELSE IF fs[n].parent = p THEN <<n>> \o ChildrenFrom(p, n + 1)
    ELSE ChildrenFrom(p, n + 1)

\* the entries of directory p in the order scandir / iterdir yields them
Children(p) == ChildrenFrom(p, 1)

\* listing p raises (permission, race); the root is listable
ListRaises(p) == p # 0 /\ ~fs[p].ok

RECURSIVE RelParts(_)
\* Path(...).relative_to(root).parts
RelParts(n) == IF n = 0 THEN <<>> ELSE Append(RelParts(fs[n].parent), fs[n].name)

Node(p, nm, k) == [parent |-> p, name |-> nm, kind |-> k, size |-> 1, ok |-> TRUE]

\* src/{m.go, lib/{u.GO}}, R.md
TreeScenario ==
    << Node(0, n_src, "dir"), Node(0, n_R_md, "file"), Node(1, n_m_go, "file"),
       Node(1, n_lib, "dir"), Node(4, n_u_GO, "file") >>

\* one directory with files, directories and a special entry in mixed case
TreeMixed ==
    << Node(0, n_m_go, "file"), Node(0, n_c, "dir"), Node(0, n_B, "dir"),
       Node(0, n_a, "other"), Node(0, n_R_md, "file"), Node(2, n_x, "file") >>

\* a/{lib/{B/{x}}, m.go}, and a file named lib
TreeDeep ==
    << Node(0, n_a, "dir"), Node(1, n_lib, "dir"), Node(2, n_B, "dir"),
       Node(3, n_x, "file"), Node(0, n_lib, "file"), Node(1, n_m_go, "file") >>

TreeEmpty == << >>

\* sibling folders: lib/{m.go}, src/{x, B}, c/
TreeSiblings ==
    << Node(0, n_lib, "dir"), Node(0, n_src, "dir"), Node(2, n_x, "file"),
       Node(1, n_m_go, "file"), Node(0, n_c, "dir"), Node(2, n_B, "file") >>

SmallTrees == {TreeScenario, TreeMixed, TreeDeep, TreeEmpty, TreeSiblings}

\* the choice that makes a node unreadable, next to the sizes 0..MaxSize
Fault == MaxSize + 1

Vary(node, c) ==
    IF c = Fault \/ node.kind = "dir" THEN [node EXCEPT !.ok = FALSE]
    ELSE [node EXCEPT !.size = c]

\* the trees that differ from t in at most MaxVaried nodes: a file with another
\* size or an unreadable one, a directory that cannot be listed
Variants(t) ==
    LET sets == {S \in SUBSET (1..Len(t)) : Cardinality(S) <= MaxVaried}
        choices == UNION {[S -> 0..Fault] : S \in sets}
    IN  { [n \in 1..Len(t) |-> IF n \in DOMAIN c THEN Vary(t[n], c[n]) ELSE t[n]]
          : c \in choices }

\* enough folders and files for both cut-offs to act
WideDirs == TOP_FOLDERS + 1
WideRootFiles == TOP_FILES - TOP_FOLDERS

WideSize(pattern, j) ==
    CASE pattern = 1 -> 1
      [] pattern = 2 -> j
      [] pattern = 3 -> 2 * WideDirs + WideRootFiles + 1 - j
      [] OTHER -> 1 + (j % 2)

\* root/{d1/{f1}, ..., dk/{fk}, g1, ..., gm}
WideTree(pattern) ==
    [n \in 1..(2 * WideDirs + WideRootFiles) |->
        IF n <= WideDirs THEN Node(0, <<100, 96 + n>>, "dir")
        ELSE IF n <= 2 * WideDirs
             THEN [Node(n - WideDirs, <<102, 96 + n - WideDirs>>, "file")
                     EXCEPT !.size = WideSize(pattern, n)]
        ELSE [Node(0, <<103, 96 + n - 2 * WideDirs>>, "file")
                EXCEPT !.size = WideSize(pattern, n)]]

WideTrees == {WideTree(p) : p \in 1..4}

\* the values of --ignore that are tried
IgnoreChoices == SUBSET {n_lib, n_B}

----------------------------------------------------------------------------
(* gather_stats *)

\* the membership test made on the lowered name
IsIgnoredLowered(name, ign) == Lower(name) \in ign

\* f in ignores / d not in ignores
IsIgnored(name, ign) == name \in ign

\* dirnames of os.walk's triple after dirnames[:] = [d for d in dirnames if d not in ignores]
PrunedDirnames(p, ign) ==
    SelectSeq(Children(p), LAMBDA n : IsDir(n) /\ ~IsIgnored(fs[n].name, ign))

\* filenames of os.walk's triple: every entry that is not a directory
Filenames(p) == SelectSeq(Children(p), LAMBDA n : ~IsDir(n))

\* the OSError is not caught as a skip: the file is counted with the size at hand
StatNeverRaises(n) == FALSE

\* p.stat() raises OSError
StatRaises(n) == ~fs[n].ok

\* only the immediate parent is credited
ParentKeyIndex(parts) == IF Len(parts) = 0 THEN 1 ELSE Len(parts)

\* first i of range(1, len(parts)+1)
FirstKeyIndex(parts) == 1

\* folder_sizes[key] += sz on a defaultdict(int): a new key is inserted last
FolderAdd(table, key, sz) ==
    IF \E i \in 1..Len(table) : table[i].key = key
    THEN [i \in 1..Len(table) |->
            IF table[i].key = key THEN [table[i] EXCEPT !.size = @ + sz] ELSE table[i]]
    ELSE Append(table, [key |-> key, size |-> sz])

RECURSIVE AddToAncestors(_, _, _, _)
\* for i in range(1, len(parts)+1): folder_sizes[Path(*parts[:i]).as_posix()] += sz
AddToAncestors(table, parts, i, sz) ==
    IF i > Len(parts) THEN table
    ELSE AddToAncestors(FolderAdd(table, SubSeq(parts, 1, i), sz), parts, i + 1, sz)

\* lang_counts[lang] += 1 if lang
CountLang(counts, name) ==
    LET lang == EXT_LANG(Lower(Suffix(name)))
    IN  IF lang # "" THEN [counts EXCEPT ![lang] = @ + 1] ELSE counts

\* total_bytes = sz
AddBytesAssigns(total, sz) == sz

\* total_bytes += sz
AddBytes(total, sz) == total + sz

\* the slot of an ascending sort that is then reversed: equal items swap
DescSlotReversed(s, x) == Cardinality({i \in 1..Len(s) : s[i].size > x.size})

\* where x goes in a list already sorted by size descending: after every item
\* that is at least as large, which keeps equal items in their first order
DescSlot(s, x) == Cardinality({i \in 1..Len(s) : s[i].size >= x.size})

InsertDesc(s, x) ==
    LET k == DescSlot(s, x)
    IN  SubSeq(s, 1, k) \o <<x>> \o SubSeq(s, k + 1, Len(s))

RECURSIVE SortDescFrom(_, _, _)
SortDescFrom(acc, s, i) ==
    IF i > Len(s) THEN acc ELSE SortDescFrom(InsertDesc(acc, s[i]), s, i + 1)

\* sorted(s, key=lambda x: x[1], reverse=True)
SortedDesc(s) == SortDescFrom(<<>>, s, 1)

\* s[:n]
Take(s, n) == SubSeq(s, 1, Min(n, Len(s)))

\* one iteration of for dirpath, dirnames, filenames in os.walk(root), up to the
\* loop over filenames; a directory that cannot be listed yields nothing
WalkDir ==
    /\ pc = "walk" /\ walk_stack # <<>>
    /\ ~ListRaises(Head(walk_stack))
    /\ cur_dir' = Head(walk_stack)
    /\ walk_stack' = PrunedDirnames(Head(walk_stack), ignores) \o Tail(walk_stack)
    /\ pending' = Filenames(Head(walk_stack))
    /\ pc' = IF pending' = <<>> THEN "walk" ELSE "files"
    /\ UNCHANGED <<total_files, total_bytes, lang_counts, file_sizes, folder_sizes,
                   top_files, top_folders>>
    /\ UNCHANGED <<main_vars, tree_vars>>

\* the listing error ends the walk
WalkListFailAborts ==
    /\ pc = "walk" /\ walk_stack # <<>>
    /\ ListRaises(Head(walk_stack))
    /\ walk_stack' = <<>>
    /\ UNCHANGED <<total_files, total_bytes, lang_counts, file_sizes, folder_sizes,
                   cur_dir, pending, top_files, top_folders, pc>>
    /\ UNCHANGED <<main_vars, tree_vars>>

\* os.walk with onerror=None: the scandir error is dropped and the walk goes on
WalkListFail ==
    /\ pc = "walk" /\ walk_stack # <<>>
    /\ ListRaises(Head(walk_stack))
    /\ walk_stack' = Tail(walk_stack)
    /\ UNCHANGED <<total_files, total_bytes, lang_counts, file_sizes, folder_sizes,
                   cur_dir, pending, top_files, top_folders, pc>>
    /\ UNCHANGED <<main_vars, tree_vars>>

NextFile ==
    /\ pending' = Tail(pending)
    /\ pc' = IF Tail(pending) = <<>> THEN "walk" ELSE "files"

\* if f in ignores: continue
SkipIgnoredFile ==
    /\ pc = "files"
    /\ IsIgnored(fs[Head(pending)].name, ignores)
    /\ NextFile
    /\ UNCHANGED <<total_files, total_bytes, lang_counts, file_sizes, folder_sizes,
                   walk_stack, cur_dir, top_files, top_folders>>
    /\ UNCHANGED <<main_vars, tree_vars>>

\* except OSError: continue
SkipUnreadableFile ==
    /\ pc = "files"
    /\ ~IsIgnored(fs[Head(pending)].name, ignores)
    /\ StatRaises(Head(pending))
    /\ NextFile
    /\ UNCHANGED <<total_files, total_bytes, lang_counts, file_sizes, folder_sizes,
                   walk_stack, cur_dir, top_files, top_folders>>
    /\ UNCHANGED <<main_vars, tree_vars>>

\* the rest of the loop body
CountFile ==
    /\ pc = "files"
    /\ ~IsIgnored(fs[Head(pending)].name, ignores)
    /\ ~StatRaises(Head(pending))
    /\ LET f == Head(pending)
           sz == fs[f].size
           parts == RelParts(cur_dir)
       IN  /\ total_files' = total_files + 1
           /\ total_bytes' = AddBytes(total_bytes, sz)
           /\ file_sizes' = Append(file_sizes, [path |-> Append(parts, fs[f].name), size |-> sz])
           /\ folder_sizes' = AddToAncestors(folder_sizes, parts, FirstKeyIndex(parts), sz)
           /\ lang_counts' = CountLang(lang_counts, fs[f].name)
    /\ NextFile
    /\ UNCHANGED <<walk_stack, cur_dir, top_files, top_folders>>
    /\ UNCHANGED <<main_vars, tree_vars>>

\* the two sorts and the return to main, which calls detect_manifests next
GatherReturn ==
    /\ pc = "walk" /\ walk_stack = <<>>
    /\ top_files' = Take(SortedDesc(file_sizes), TOP_FILES)
    /\ top_folders' = Take(SortedDesc(folder_sizes), TOP_FOLDERS)
    /\ pc' = "manifests"
    /\ UNCHANGED <<total_files, total_bytes, lang_counts, file_sizes, folder_sizes,
                   walk_stack, cur_dir, pending>>
    /\ UNCHANGED <<main_vars, tree_vars>>

----------------------------------------------------------------------------
(* scan_tree *)

\* root.name
n_root == <<114, 101, 112, 111>>

\* lines.append(root.name + "/"); node is the entry the line was appended for
RootLine == [prefix |-> <<>>, connector |-> "", name |-> n_root, slash |-> TRUE, node |-> 0]

\* an activation of helper(path, prefix, current_depth); i = 0 until the entries
\* are listed, then the 1-based position of the for loop
Frame(path, prefix, current_depth) ==
    [path |-> path, prefix |-> prefix, current_depth |-> current_depth,
     entries |-> <<>>, i |-> 0]

\* the depth test off by one
DepthExceededLate(current_depth, d) == current_depth > d + 1

\* if current_depth > depth: return
DepthExceeded(current_depth, d) == current_depth > d

\* (a.is_file(), a.name.lower()) < (b.is_file(), b.name.lower())
KeyLess(a, b) ==
    \/ ~IsFile(a) /\ IsFile(b)
    \/ /\ IsFile(a) = IsFile(b)
       /\ LexLess(Lower(fs[a].name), Lower(fs[b].name))

\* where x goes in a list already sorted by key: after every entry whose key is
\* not greater
KeySlot(s, x) == Cardinality({i \in 1..Len(s) : ~KeyLess(x, s[i])})

RECURSIVE SortByKeyFrom(_, _, _)
SortByKeyFrom(acc, s, i) ==
    IF i > Len(s) THEN acc
    ELSE LET k == KeySlot(acc, s[i])
         IN  SortByKeyFrom(SubSeq(acc, 1, k) \o <<s[i]>> \o SubSeq(acc, k + 1, Len(acc)),
                           s, i + 1)

\* sorted([p for p in path.iterdir()], key=lambda p: (p.is_file(), p.name.lower()))
SortedEntries(p) == SortByKeyFrom(<<>>, Children(p), 1)

\* entries = [e for e in entries if e.name not in ignores]
ListedEntries(p, ign) ==
    SelectSeq(SortedEntries(p), LAMBDA n : ~IsIgnored(fs[n].name, ign))

\* is_last = i == len(entries), which no position satisfies
IsLastNever(i, n) == i = n + 1

\* is_last = i == len(entries) - 1, with i counted from 1 here
IsLast(i, n) == i = n

\* connector = "└── " if is_last else "├── "
Connector(is_last) == IF is_last THEN "terminal" ELSE "continuing"

\* extension = "    " if is_last else "│   "
Extension(is_last) == IF is_last THEN "blank" ELSE "bar"

\* if current_depth > depth: return
HelperDepthReturn ==
    /\ pc = "tree" /\ frames # <<>>
    /\ Head(frames).i = 0
    /\ DepthExceeded(Head(frames).current_depth, depth)
    /\ frames' = Tail(frames)
    /\ UNCHANGED <<lines, depth, pc>>
    /\ UNCHANGED <<main_vars, stats_vars>>

\* except Exception: return
HelperListFail ==
    /\ pc = "tree" /\ frames # <<>>
    /\ Head(frames).i = 0
    /\ ~DepthExceeded(Head(frames).current_depth, depth)
    /\ ListRaises(Head(frames).path)
    /\ frames' = Tail(frames)
    /\ UNCHANGED <<lines, depth, pc>>
    /\ UNCHANGED <<main_vars, stats_vars>>

\* the listing, the sort and the filter
HelperList ==
    /\ pc = "tree" /\ frames # <<>>
    /\ Head(frames).i = 0
    /\ ~DepthExceeded(Head(frames).current_depth, depth)
    /\ ~ListRaises(Head(frames).path)
    /\ frames' = <<[Head(frames) EXCEPT
                      !.entries = ListedEntries(Head(frames).path, ignores),
                      !.i = 1]>> \o Tail(frames)
    /\ UNCHANGED <<lines, depth, pc>>
    /\ UNCHANGED <<main_vars, stats_vars>>

\* one pass of for i, entry in enumerate(entries), up to the recursive call
HelperEmit ==
    /\ pc = "tree" /\ frames # <<>>
    /\ Head(frames).i >= 1 /\ Head(frames).i <= Len(Head(frames).entries)
    /\ LET fr == Head(frames)
           entry == fr.entries[fr.i]
           is_last == IsLast(fr.i, Len(fr.entries))
           rest == <<[fr EXCEPT !.i = @ + 1]>> \o Tail(frames)
       IN  /\ lines' = Append(lines, [prefix |-> fr.prefix,
                                      connector |-> Connector(is_last),
                                      name |-> fs[entry].name,
                                      slash |-> IsDir(entry),
                                      node |-> entry])
           /\ frames' = IF IsDir(entry)
                        THEN <<Frame(entry, Append(fr.prefix, Extension(is_last)),
                                     fr.current_depth + 1)>> \o rest
                        ELSE rest
    /\ UNCHANGED <<depth, pc>>
    /\ UNCHANGED <<main_vars, stats_vars>>

\* the for loop of helper is exhausted
HelperReturn ==
    /\ pc = "tree" /\ frames # <<>>
    /\ Head(frames).i > Len(Head(frames).entries)
    /\ frames' = Tail(frames)
    /\ UNCHANGED <<lines, depth, pc>>
    /\ UNCHANGED <<main_vars, stats_vars>>

\* return lines
ScanReturn ==
    /\ pc = "tree" /\ frames = <<>>
    /\ pc' = "write"
    /\ UNCHANGED <<lines, depth, frames>>
    /\ UNCHANGED <<main_vars, stats_vars>>

----------------------------------------------------------------------------
(* main *)

Init ==
    /\ root_valid \in BOOLEAN
    /\ fs \in IF root_valid
              THEN (UNION {Variants(t) : t \in SmallTrees}) \cup WideTrees
              ELSE {<<>>}
    /\ pc = "main"
    /\ exit_code = -1
    /\ calls = <<>>
    /\ written = FALSE
    /\ ignores = {}
    /\ total_files = 0 /\ total_bytes = 0
    /\ lang_counts = [l \in Langs |-> 0]
    /\ file_sizes = <<>> /\ folder_sizes = <<>>
    /\ walk_stack = <<>> /\ cur_dir = 0 /\ pending = <<>>
    /\ top_files = <<>> /\ top_folders = <<>>
    /\ depth = 0 /\ lines = <<>> /\ frames = <<>>

\* the path check left out
PathNeverRejected == FALSE

\* if not root.exists() or not root.is_dir()
PathRejected == ~root_valid

\* print(..., file=sys.stderr); sys.exit(1)
MainExit ==
    /\ pc = "main"
    /\ PathRejected
    /\ pc' = "exit"
    /\ exit_code' = 1
    /\ UNCHANGED <<fs, root_valid, calls, written, ignores, stats_vars, tree_vars>>

\* ignores = set(...); stats = gather_stats(root, ignores), up to the first os.walk step
MainCallGather ==
    /\ pc = "main"
    /\ ~PathRejected
    /\ ignores' \in IgnoreChoices
    /\ calls' = Append(calls, "gather_stats")
    /\ walk_stack' = <<0>>
    /\ pc' = "walk"
    /\ UNCHANGED <<fs, root_valid, exit_code, written, total_files, total_bytes,
                   lang_counts, file_sizes, folder_sizes, cur_dir, pending,
                   top_files, top_folders, tree_vars>>

\* manifests = detect_manifests(root)
MainCallManifests ==
    /\ pc = "manifests"
    /\ calls' = Append(calls, "detect_manifests")
    /\ pc' = "git"
    /\ UNCHANGED <<fs, root_valid, exit_code, written, ignores, stats_vars, tree_vars>>

\* git = git_info(root)
MainCallGit ==
    /\ pc = "git"
    /\ calls' = Append(calls, "git_info")
    /\ pc' = "scan"
    /\ UNCHANGED <<fs, root_valid, exit_code, written, ignores, stats_vars, tree_vars>>

\* tree_lines = scan_tree(root, args.depth, ignores), up to the call helper(root, "", 1)
MainCallScanTree ==
    /\ pc = "scan"
    /\ calls' = Append(calls, "scan_tree")
    /\ depth' \in 0..MaxDepth
    /\ lines' = <<RootLine>>
    /\ frames' = <<Frame(0, <<>>, 1)>>
    /\ pc' = "tree"
    /\ UNCHANGED <<fs, root_valid, exit_code, written, ignores, stats_vars>>

\* md = make_markdown(...); out_path.write_text(md); the previews
MainWrite ==
    /\ pc = "write"
    /\ written' = TRUE
    /\ exit_code' = 0
    /\ pc' = "done"
    /\ UNCHANGED <<fs, root_valid, calls, ignores, stats_vars, tree_vars>>

Next ==
    \/ MainExit
    \/ MainCallGather
    \/ WalkDir
    \/ WalkListFail
    \/ SkipIgnoredFile
    \/ SkipUnreadableFile
    \/ CountFile
    \/ GatherReturn
    \/ MainCallManifests
    \/ MainCallGit
    \/ MainCallScanTree
    \/ HelperDepthReturn
    \/ HelperListFail
    \/ HelperList
    \/ HelperEmit
    \/ HelperReturn
    \/ ScanReturn
    \/ MainWrite

Spec == Init /\ [][Next]_vars

----------------------------------------------------------------------------
(* The vocabulary of the properties, computed from the tree alone. *)

RECURSIVE SumSizes(_)
SumSizes(recs) == IF recs = <<>> THEN 0 ELSE Head(recs).size + SumSizes(Tail(recs))

RECURSIVE SumNodeSizes(_)
SumNodeSizes(S) ==
    IF S = {} THEN 0
    ELSE LET n == CHOOSE m \in S : TRUE IN fs[n].size + SumNodeSizes(S \ {n})

Range(s) == {s[i] : i \in DOMAIN s}

IsProperPrefix(a, b) == Len(a) < Len(b) /\ SubSeq(b, 1, Len(a)) = a

\* some segment of the relative path is an excluded name
PathIgnored(parts) == \E i \in DOMAIN parts : parts[i] \in ignores

Level(n) == Len(RelParts(n))

RECURSIVE Under(_, _)
\* n lies below directory d
Under(n, d) == n # 0 /\ (fs[n].parent = d \/ Under(fs[n].parent, d))

RECURSIVE Reached(_)
\* d is the root, or a listable, non-excluded directory all of whose ancestors are
Reached(d) ==
    \/ d = 0
    \/ IsDir(d) /\ fs[d].name \notin ignores /\ fs[d].ok /\ Reached(fs[d].parent)

\* the non-excluded entries of the directories that can be reached
Visible == {n \in Nodes : fs[n].name \notin ignores /\ Reached(fs[n].parent)}

\* the files among them that are in S
CountableIn(S) == {n \in Visible \cap S : ~IsDir(n)}

Unreadable == {n \in Nodes : ~IsDir(n) /\ ~fs[n].ok}

Unlistable == {n \in Nodes : IsDir(n) /\ ~fs[n].ok}

\* the files gather_stats is to count: the tree without its unreadable files
Counted == CountableIn(Nodes \ Unreadable)

RecordPaths == {file_sizes[i].path : i \in DOMAIN file_sizes}

FolderKeys == {folder_sizes[i].key : i \in DOMAIN folder_sizes}

LineNodes == {lines[i].node : i \in 2..Len(lines)}

GatherDone == pc \in {"manifests", "git", "scan", "tree", "write", "done"}

ScanDone == pc \in {"write", "done"}

----------------------------------------------------------------------------
(* C1: no entry whose own name is excluded, and no entry below a directory  *)
(* whose name is excluded, is in gather_stats' file records or folder keys  *)
(* or is a line of scan_tree; and the two walks prune alike: down to the    *)
(* depth limit, scan_tree lists exactly the files gather_stats recorded.    *)
ExclusionRespected ==
    /\ \A i \in DOMAIN file_sizes : ~PathIgnored(file_sizes[i].path)
    /\ \A i \in DOMAIN folder_sizes : ~PathIgnored(folder_sizes[i].key)
    /\ \A i \in DOMAIN top_files : ~PathIgnored(top_files[i].path)
    /\ \A i \in DOMAIN top_folders : ~PathIgnored(top_folders[i].key)
    /\ \A n \in LineNodes : ~PathIgnored(RelParts(n))
    /\ ScanDone =>
         {n \in LineNodes : ~IsDir(n) /\ fs[n].ok}
           = {n \in Nodes : ~IsDir(n) /\ RelParts(n) \in RecordPaths /\ Level(n) <= depth}

\* the run is over, a file was recorded and listed, and the tree holds an excluded
\* directory with an entry below it that the depth limit alone would not hide
ExclusionWitness ==
    /\ pc = "done"
    /\ file_sizes # <<>> /\ Len(lines) > 1
    /\ \E d, n \in Nodes :
         /\ IsDir(d) /\ fs[d].name \in ignores /\ fs[d].ok
         /\ fs[n].parent = d /\ Level(n) <= depth
         /\ ~PathIgnored(RelParts(fs[d].parent))
    /\ \E n \in Nodes : ~IsDir(n) /\ fs[n].name \in ignores /\ Reached(fs[n].parent)

(* C2: every folder keyed in folder_sizes holds the sum of the sizes of the *)
(* recorded files below it at any level; every folder above a recorded file *)
(* is keyed, once; the root is never a key; and when gather_stats is done   *)
(* the value is the sum over the tree's counted files below that folder.    *)
FolderSizeIsRecursiveSum ==
    /\ \A i \in DOMAIN folder_sizes :
         /\ folder_sizes[i].key # <<>>
         /\ folder_sizes[i].size =
              SumSizes(SelectSeq(file_sizes,
                                 LAMBDA r : IsProperPrefix(folder_sizes[i].key, r.path)))
         /\ \A j \in DOMAIN folder_sizes : folder_sizes[j].key = folder_sizes[i].key => j = i
    /\ \A i \in DOMAIN file_sizes : \A k \in 1..(Len(file_sizes[i].path) - 1) :
         SubSeq(file_sizes[i].path, 1, k) \in FolderKeys
    /\ GatherDone =>
         \A i \in DOMAIN folder_sizes :
           folder_sizes[i].size =
             SumNodeSizes({n \in Counted : IsProperPrefix(folder_sizes[i].key, RelParts(n))})

\* a folder's value includes a file two levels below it, next to a file in the root
FolderSizeWitness ==
    /\ pc = "done"
    /\ \E i \in DOMAIN folder_sizes, j, k \in DOMAIN file_sizes :
         /\ Len(folder_sizes[i].key) = 1
         /\ Len(file_sizes[j].path) = 3
         /\ IsProperPrefix(folder_sizes[i].key, file_sizes[j].path)
         /\ file_sizes[j].size > 0
         /\ Len(file_sizes[k].path) = 1 /\ file_sizes[k].size > 0

(* C3: the first line of scan_tree is the root's name with the separator;   *)
(* every other line is an entry at nesting level 1..depth, indented by its  *)
(* level; with depth 0 the finished output is that one line.                *)
DepthBounded ==
    /\ pc \in {"tree", "write", "done"} =>
         /\ Len(lines) >= 1
         /\ lines[1].name = n_root /\ lines[1].slash
         /\ lines[1].prefix = <<>> /\ lines[1].connector = ""
    /\ \A i \in 2..Len(lines) :
         /\ Level(lines[i].node) \in 1..depth
         /\ Len(lines[i].prefix) + 1 = Level(lines[i].node)
    /\ ScanDone /\ depth = 0 => Len(lines) = 1

\* a listed directory at the depth limit has an entry that only the limit hides
DepthWitness ==
    /\ pc = "done" /\ depth >= 1
    /\ \E n \in Visible : Level(n) = depth + 1 /\ fs[n].parent \in LineNodes

\* the place of x in the order the walk met the items
Position(all, x) == CHOOSE j \in DOMAIN all : all[j] = x

Precedes(all, x, y) ==
    x.size > y.size \/ (x.size = y.size /\ Position(all, x) < Position(all, y))

IsStableTop(top, all, limit) ==
    /\ Len(top) = Min(limit, Len(all))
    /\ Len(top) <= limit
    /\ \A i \in DOMAIN top : top[i] \in Range(all)
    /\ \A i, k \in DOMAIN top : i < k => Precedes(all, top[i], top[k])
    /\ \A j \in DOMAIN all : all[j] \notin Range(top) =>
         \A i \in DOMAIN top : Precedes(all, top[i], all[j])

(* C4: top_files holds at most 15 records and top_folders at most 10        *)
(* entries; each is ordered by size descending and holds the largest items; *)
(* of two items of equal size the one met first by the walk comes first,    *)
(* and is the one kept when the cut falls between them.                     *)
TopListsStable ==
    /\ ~GatherDone => top_files = <<>> /\ top_folders = <<>>
    /\ GatherDone =>
         /\ IsStableTop(top_files, file_sizes, TOP_FILES)
         /\ IsStableTop(top_folders, folder_sizes, TOP_FOLDERS)

\* both lists were cut, each between two items of equal size, and top_files also
\* holds two items of different size
TopListsWitness ==
    /\ pc = "done"
    /\ Len(file_sizes) > TOP_FILES /\ Len(folder_sizes) > TOP_FOLDERS
    /\ \E j \in DOMAIN file_sizes :
         file_sizes[j] \notin Range(top_files) /\ file_sizes[j].size = top_files[TOP_FILES].size
    /\ \E j \in DOMAIN folder_sizes :
         /\ folder_sizes[j] \notin Range(top_folders)
         /\ folder_sizes[j].size = top_folders[TOP_FOLDERS].size
    /\ top_files[1].size > top_files[TOP_FILES].size

(* C5: a non-excluded file whose size cannot be read is skipped: when       *)
(* gather_stats is done, the totals, the records, the folder sizes and the  *)
(* language counts are those of the tree without its unreadable files, and  *)
(* the program has not ended with an error.                                 *)
UnreadableFileSkipped ==
    GatherDone =>
      /\ total_files = Cardinality(Counted)
      /\ total_bytes = SumNodeSizes(Counted)
      /\ Len(file_sizes) = Cardinality(Counted)
      /\ Range(file_sizes) = {[path |-> RelParts(n), size |-> fs[n].size] : n \in Counted}
      /\ \A l \in Langs :
           lang_counts[l] =
             Cardinality({n \in Counted : EXT_LANG(Lower(Suffix(fs[n].name))) = l})
      /\ Range(folder_sizes) =
           {[key |-> RelParts(d),
             size |-> SumNodeSizes({n \in Counted : Under(n, d)})]
              : d \in {e \in Nodes : \E n \in Counted : Under(n, e)}}
      /\ exit_code # 1

\* the walk met an unreadable, non-excluded file and counted another file
UnreadableWitness ==
    /\ pc = "done"
    /\ \E n \in CountableIn(Unreadable) : \E m \in Counted :
         fs[n].parent # 0 /\ fs[m].parent = fs[n].parent

(* C6: a subdirectory that cannot be listed aborts neither walk: at the end *)
(* nothing below it is recorded, keyed or listed, every countable file      *)
(* outside it is recorded, every visible entry within the depth limit has   *)
(* its line, and the program ends normally.                                 *)
UnlistableDirTolerated ==
    /\ root_valid => exit_code # 1
    /\ \A d \in Unlistable :
         /\ \A n \in Nodes : Under(n, d) =>
              /\ RelParts(n) \notin RecordPaths
              /\ n \notin LineNodes
         /\ RelParts(d) \notin FolderKeys
    /\ GatherDone /\ Unlistable # {} => \A n \in Counted : RelParts(n) \in RecordPaths
    /\ ScanDone /\ Unlistable # {} =>
         \A n \in Visible : Level(n) <= depth => n \in LineNodes
    /\ pc = "done" => exit_code = 0 /\ written

\* a reachable directory that cannot be listed has a line, and a sibling directory
\* that the walks visit after it has a file that was recorded and listed
UnlistableWitness ==
    /\ pc = "done"
    /\ \E d \in Unlistable \cap Visible : \E n \in Counted :
         /\ d \in LineNodes /\ n \in LineNodes
         /\ RelParts(n) \in RecordPaths
         /\ fs[n].parent \notin {0, fs[d].parent}
         /\ fs[fs[n].parent].parent = fs[d].parent
         /\ fs[n].parent > d
         /\ KeyLess(d, fs[n].parent)

(* C7: at every point of the walk and after it, total_files is the number   *)
(* of file records and total_bytes the sum of their sizes, the records      *)
(* without a language label included.                                       *)
TotalsMatchRecords ==
    /\ total_files = Len(file_sizes)
    /\ total_bytes = SumSizes(file_sizes)
    /\ total_files >= lang_counts["Go"] + lang_counts["Markdown"] + lang_counts["Python"]

\* in the middle of the loop over filenames, with a record that has no language
\* label and a total that more than one record adds to
TotalsWitness ==
    /\ pc = "files"
    /\ total_files >= 2 /\ total_bytes >= 3
    /\ total_files > lang_counts["Go"] + lang_counts["Markdown"] + lang_counts["Python"]
    /\ \E i \in DOMAIN file_sizes :
         EXT_LANG(Lower(Suffix(file_sizes[i].path[Len(file_sizes[i].path)]))) = ""

(* C8: with a root that does not exist or is not a directory, main ends     *)
(* with status 1 having called none of gather_stats, detect_manifests,      *)
(* git_info and scan_tree and without writing the report; the calls and the *)
(* write happen only with a valid root, the write after all four calls.     *)
PathCheckedFirst ==
    /\ ~root_valid => calls = <<>> /\ ~written /\ pc \in {"main", "exit"}
    /\ pc = "exit" <=> exit_code = 1
    /\ pc = "exit" => ~root_valid /\ calls = <<>> /\ ~written
    /\ calls # <<>> \/ written => root_valid /\ pc \notin {"main", "exit"}
    /\ written => calls = <<"gather_stats", "detect_manifests", "git_info", "scan_tree">>
    /\ \A i \in DOMAIN calls :
         calls[i] = <<"gather_stats", "detect_manifests", "git_info", "scan_tree">>[i]

\* main has ended on the failed path check
PathCheckWitness == pc = "exit" /\ exit_code = 1 /\ ~root_valid

(* C9: the lines of the immediate children of a listed directory come with  *)
(* all subdirectories before all other entries and, within each of the two  *)
(* groups, ascending by lowered name.                                       *)
ChildrenOrdered ==
    \A i, j \in 2..Len(lines) :
      i < j /\ fs[lines[i].node].parent = fs[lines[j].node].parent =>
        /\ ~(~lines[i].slash /\ lines[j].slash)
        /\ lines[i].slash = lines[j].slash =>
             ~LexLess(Lower(lines[j].name), Lower(lines[i].name))

ChildLines(p) == {i \in 2..Len(lines) : fs[lines[i].node].parent = p}

LineOf(n) == CHOOSE i \in 2..Len(lines) : lines[i].node = n

ChildPrefix(p) ==
    IF p = 0 THEN <<>>
    ELSE Append(lines[LineOf(p)].prefix,
                IF lines[LineOf(p)].connector = "terminal" THEN "blank" ELSE "bar")

(* C10: in the finished output the child lines of a listed directory are    *)
(* its non-excluded children, one line each; the last of them has the       *)
(* terminal connector and the others the continuing one; and the prefix of  *)
(* the child lines is the prefix of the directory's own line extended by a  *)
(* blank if that line has the terminal connector and by a bar otherwise.    *)
ConnectorsAndPrefixes ==
    /\ \A i, j \in 2..Len(lines) : lines[i].node = lines[j].node => i = j
    /\ \A i \in 2..Len(lines) :
         /\ lines[i].prefix = ChildPrefix(fs[lines[i].node].parent)
         /\ lines[i].connector \in {"terminal", "continuing"}
         /\ lines[i].connector = "terminal" =>
              \A j \in ChildLines(fs[lines[i].node].parent) : j <= i
    /\ ScanDone =>
         \A p \in LineNodes \cup {0} : ChildLines(p) # {} =>
           /\ {lines[i].node : i \in ChildLines(p)}
                = {n \in Nodes : fs[n].parent = p /\ fs[n].name \notin ignores}
           /\ Cardinality({i \in ChildLines(p) : lines[i].connector = "terminal"}) = 1
           /\ \A i \in ChildLines(p) :
                lines[i].connector = "terminal" <=> \A j \in ChildLines(p) : j <= i

\* an excluded name was removed from a listing, and the output has child lines
\* below a directory that was last and below one that was not
ConnectorsWitness ==
    /\ pc = "done"
    /\ \E n \in Nodes : fs[n].name \in ignores /\ fs[n].parent \in LineNodes \cup {0}
                        /\ ChildLines(fs[n].parent) # {}
    /\ \E i, j \in 2..Len(lines) :
         /\ lines[i].prefix # <<>> /\ lines[i].prefix[Len(lines[i].prefix)] = "bar"
         /\ lines[j].prefix # <<>> /\ lines[j].prefix[Len(lines[j].prefix)] = "blank"

====
